---- MODULE Spec2Model ----
(***************************************************************************)
(* Job scraper: the crawl -> parse -> classify -> persist pipeline.        *)
(*   - the classifier  (src/utils/keywords.js: extractKeywords,            *)
(*     detectSeniority), on strings modelled as sequences of characters;   *)
(*   - the crawl orchestrator (src/crawlers/indeed.js: IndeedCrawler);     *)
(*   - the repository (upsertJob, searchJobs, markInactive, getStats of    *)
(*     src/db/connection.js over the table of src/db/schema.sql) and the   *)
(*     host that wires them together (src/index.js).                       *)
(* Strings that the code inspects (titles, dictionary terms, the location  *)
(* that searchJobs matches against a pattern) are tuples of one-character  *)
(* strings; opaque strings (search terms, company names, url paths) stay   *)
(* TLA+ strings.                                                           *)
(***************************************************************************)
EXTENDS Integers, Sequences, FiniteSets, TLC

VARIABLES
  \* ---- classifier harness: one call of extractKeywords / detectSeniority
  text,            \* the title handed to the classifier
  matched,         \* result of extractKeywords(text)
  level,           \* result of detectSeniority(text)
  cpc,             \* "input" before the call, "classified" after it;
                   \* "document" and "parsed" for the extractor
  \* ---- extractor harness: one call of parseJobs
  doc,             \* the result page handed to parseJobs
  parsed,          \* the postings parseJobs returned, classified as by crawl()
  \* ---- IndeedCrawler.crawl, one entry per invocation
  pc,              \* position of the invocation in crawl()
  searchParams,    \* {keywords, locations, maxPages} of the invocation
  kIdx,            \* index of the keyword of the outer loop
  lIdx,            \* index of the location of the inner loop
  page,            \* the page counter of the innermost loop
  jobs,            \* postings of the current page not yet processed
  jobData,         \* the posting handed to the pending saveCallback
  totalJobsFound,  \* the running counter crawl() returns
  fetchLog,        \* history: the fetches issued, with their outcome
  extracted,       \* history: postings returned by parseJobs so far
  sinkCalls,       \* history: calls of saveCallback so far
  slept,           \* history: ms slept since the last fetch began
  \* ---- the job_repository table and the clock of the database
  rows,            \* the stored rows
  serial,          \* next value of the id sequence (SERIAL)
  now,             \* NOW(), in days
  result,          \* what the last upsertJob / markInactive returned
  swept,           \* history: ids of the rows markInactive made inactive
  found            \* what the last searchJobs / getStats returned

classVars == <<text, matched, level, cpc, doc, parsed>>
crawlVars == <<pc, searchParams, kIdx, lIdx, page, jobs, jobData,
               totalJobsFound, fetchLog, extracted, sinkCalls, slept>>
repoVars  == <<rows, serial, now, result, swept, found>>
vars == <<text, matched, level, cpc, doc, parsed,
          pc, searchParams, kIdx, lIdx, page, jobs, jobData,
          totalJobsFound, fetchLog, extracted, sinkCalls, slept,
          rows, serial, now, result, swept, found>>

----------------------------------------------------------------------------
(* Characters and strings                                                  *)

UpperChars == <<"A","B","C","D","E","F","G","H","I","J","K","L","M",
                "N","O","P","Q","R","S","T","U","V","W","X","Y","Z">>
LowerChars == <<"a","b","c","d","e","f","g","h","i","j","k","l","m",
                "n","o","p","q","r","s","t","u","v","w","x","y","z">>
Digits == {"0","1","2","3","4","5","6","7","8","9"}

\* the characters the regex class \w holds
WordChars ==
  {UpperChars[i] : i \in 1..26} \cup {LowerChars[i] : i \in 1..26}
    \cup Digits \cup {"_"}

LowerChar(c) ==
  IF \E i \in 1..26 : UpperChars[i] = c
    THEN LowerChars[CHOOSE i \in 1..26 : UpperChars[i] = c]
    ELSE c

\* String.prototype.toLowerCase
toLowerCase(s) == [i \in 1..Len(s) |-> LowerChar(s[i])]

IsWordChar(s, p) == p >= 1 /\ p <= Len(s) /\ s[p] \in WordChars

\* the regex assertion \b between s[p-1] and s[p]
WordBoundary(s, p) == IsWordChar(s, p - 1) # IsWordChar(s, p)

LiteralAt(s, lit, p) ==
  /\ p + Len(lit) - 1 <= Len(s)
  /\ \A i \in 1..Len(lit) : s[p + i - 1] = lit[i]

\* new RegExp(`\\b${escaped literal}\\b`, 'i').test(s), for s in lower case
\* and a lower-case literal: the escaping makes every character of the
\* literal match itself
TestWholeWord(lit, s) ==
  \E p \in 1..Len(s) :
    /\ LiteralAt(s, lit, p)
    /\ WordBoundary(s, p)
    /\ WordBoundary(s, p + Len(lit))

EndsWith(s, suffix) ==
  /\ Len(s) >= Len(suffix)
  /\ \A i \in 1..Len(suffix) : s[Len(s) - Len(suffix) + i] = suffix[i]

RECURSIVE RemoveSpaces(_)
RemoveSpaces(s) ==
  IF Len(s) = 0 THEN <<>>
  ELSE IF Head(s) = " " THEN RemoveSpaces(Tail(s))
  ELSE <<Head(s)>> \o RemoveSpaces(Tail(s))

----------------------------------------------------------------------------
(* Classifier: src/utils/keywords.js                                       *)

KEYWORDS ==
  <<
    \* Languages
    <<"j","a","v","a","s","c","r","i","p","t">>,
    <<"t","y","p","e","s","c","r","i","p","t">>,
    <<"p","y","t","h","o","n">>,
    <<"j","a","v","a">>,
    <<"g","o">>,
    <<"r","u","s","t">>,
    <<"c","+","+">>,
    <<"c","#">>,
    <<"r","u","b","y">>,
    <<"p","h","p">>,
    \* Frontend
    <<"r","e","a","c","t">>,
    <<"v","u","e">>,
    <<"a","n","g","u","l","a","r">>,
    <<"s","v","e","l","t","e">>,
    <<"n","e","x","t","j","s">>,
    <<"n","e","x","t",".","j","s">>,
    \* Backend
    <<"n","o","d","e">>,
    <<"n","o","d","e","j","s">>,
    <<"n","o","d","e",".","j","s">>,
    <<"e","x","p","r","e","s","s">>,
    <<"d","j","a","n","g","o">>,
    <<"f","l","a","s","k">>,
    <<"s","p","r","i","n","g">>,
    \* Databases
    <<"p","o","s","t","g","r","e","s","q","l">>,
    <<"p","o","s","t","g","r","e","s">>,
    <<"m","y","s","q","l">>,
    <<"m","o","n","g","o","d","b">>,
    <<"r","e","d","i","s">>,
    <<"s","q","l">>,
    \* Cloud/DevOps
    <<"a","w","s">>,
    <<"a","z","u","r","e">>,
    <<"g","c","p">>,
    <<"d","o","c","k","e","r">>,
    <<"k","u","b","e","r","n","e","t","e","s">>,
    <<"k","8","s">>,
    \* Mobile
    <<"r","e","a","c","t"," ","n","a","t","i","v","e">>,
    <<"f","l","u","t","t","e","r">>,
    <<"s","w","i","f","t">>,
    <<"k","o","t","l","i","n">>,
    <<"i","o","s">>,
    <<"a","n","d","r","o","i","d">>,
    \* Other
    <<"a","p","i">>,
    <<"r","e","s","t">>,
    <<"g","r","a","p","h","q","l">>,
    <<"m","i","c","r","o","s","e","r","v","i","c","e","s">>,
    <<"a","g","i","l","e">>,
    <<"g","i","t">>
  >>

\* /\b(junior|jr\.?|entry|associate|0-2 years)\b/i
EntryTerms ==
  { <<"j","u","n","i","o","r">>,
    <<"j","r">>,
    <<"j","r",".">>,
    <<"e","n","t","r","y">>,
    <<"a","s","s","o","c","i","a","t","e">>,
    <<"0","-","2"," ","y","e","a","r","s">> }

\* /\b(senior|sr\.?|lead|staff|principal)\b/i
SeniorTerms ==
  { <<"s","e","n","i","o","r">>,
    <<"s","r">>,
    <<"s","r",".">>,
    <<"l","e","a","d">>,
    <<"s","t","a","f","f">>,
    <<"p","r","i","n","c","i","p","a","l">> }

\* /\b(manager|director|vp|head of|chief)\b/i
ManagementTerms ==
  { <<"m","a","n","a","g","e","r">>,
    <<"d","i","r","e","c","t","o","r">>,
    <<"v","p">>,
    <<"h","e","a","d"," ","o","f">>,
    <<"c","h","i","e","f">> }

\* keyword.replace(/\.js$/, '').replace(/\s+/g, '')
Normalize(keyword) ==
  LET stripped == IF EndsWith(keyword, <<".","j","s">>)
                    THEN SubSeq(keyword, 1, Len(keyword) - 3)
                    ELSE keyword
  IN  RemoveSpaces(stripped)

extractKeywords(t) ==
  IF Len(t) = 0 THEN {}
  ELSE LET lowerText == toLowerCase(t)
       IN  { Normalize(KEYWORDS[i]) :
               i \in { j \in 1..Len(KEYWORDS) : TestWholeWord(KEYWORDS[j], lowerText) } }

\* one alternation /\b(a|b|...)\b/i tested against the lower-cased title
TestTerms(terms, lowerTitle) ==
  \E term \in terms : TestWholeWord(term, lowerTitle)

detectSeniority(title) ==
  IF Len(title) = 0 THEN "mid"
  ELSE LET lowerTitle == toLowerCase(title)
       IN  IF TestTerms(EntryTerms, lowerTitle) THEN "entry"
           ELSE IF TestTerms(SeniorTerms, lowerTitle) THEN "senior"
           ELSE IF TestTerms(ManagementTerms, lowerTitle) THEN "management"
           ELSE "mid"

----------------------------------------------------------------------------
(* Bounds of the model                                                     *)

MaxTitleWords == 3    \* words of a title handed to the classifier harness
MaxKeywords == 2      \* search keywords of one SearchSpec
MaxLocations == 2     \* locations of one SearchSpec
MaxPagesBound == 3    \* largest maxPages of a SearchSpec
MaxRequests == 8      \* most pages one SearchSpec asks for
MaxTime == 9          \* last day of the database clock
MaxSerial == 3        \* last value the id sequence hands out
MaxLimit == 2         \* largest limit handed to searchJobs
MaxCards == 2         \* job cards of a result page handed to parseJobs

(* Program constants                                                       *)

RateLimit == 3000     \* this.rateLimit, ms
PageSize == 10        \* results per page
StaleDays == 7        \* INTERVAL '7 days'

----------------------------------------------------------------------------
(* Inputs of the classifier harness                                        *)

Vocabulary ==
  { <<"S","e","n","i","o","r">>,
    <<"E","n","g","i","n","e","e","r","i","n","g">>,
    <<"M","a","n","a","g","e","r">>,
    <<"S","t","a","f","f">>,
    <<"S","o","f","t","w","a","r","e">>,
    <<"E","n","g","i","n","e","e","r">>,
    <<"J","u","n","i","o","r">>,
    <<"D","e","v","e","l","o","p","e","r">>,
    <<"N","o","d","e",".","j","s">>,
    <<"N","o","d","e","J","S">>,
    <<"P","o","s","t","g","r","e","s">>,
    <<"P","o","s","t","g","r","e","S","Q","L">>,
    <<"C","+","+">>,
    <<"C","#">>,
    <<"J","a","v","a","S","c","r","i","p","t">>,
    <<"R","e","a","c","t">>,
    <<"N","a","t","i","v","e">> }

TitleSeniorNode == <<"S","e","n","i","o","r"," ","N","o","d","e",".","j","s"," ","D","e","v","e","l","o","p","e","r">>   \* "Senior Node.js Developer"
TitleStaff == <<"S","t","a","f","f"," ","S","o","f","t","w","a","r","e"," ","E","n","g","i","n","e","e","r">>   \* "Staff Software Engineer"
TitleNodeJS == <<"N","o","d","e","J","S"," ","E","n","g","i","n","e","e","r">>   \* "NodeJS Engineer"
TitleManager == <<"S","e","n","i","o","r"," ","E","n","g","i","n","e","e","r","i","n","g"," ","M","a","n","a","g","e","r">>   \* "Senior Engineering Manager"

RECURSIVE Join(_)
Join(ws) ==
  IF Len(ws) = 0 THEN <<>>
  ELSE IF Len(ws) = 1 THEN ws[1]
  ELSE ws[1] \o <<" ">> \o Join(Tail(ws))

\* every title of at most MaxTitleWords words of the vocabulary
Titles ==
  { Join(ws) : ws \in UNION { [1..n -> Vocabulary] : n \in 0..MaxTitleWords } }

----------------------------------------------------------------------------
(* IndeedCrawler: src/crawlers/indeed.js                                   *)

\* the two places of index.js that invoke runCrawlers
Crawls == {"startup", "scheduled"}

KeywordPool == <<"software engineer", "full stack developer", "backend engineer">>
LocationPool == <<"Remote", "San Francisco", "New York">>

\* the SearchSpecs of the model: at least one keyword, one location and one
\* page, and at most MaxRequests pages in all
SearchSpecs ==
  { [keywords |-> SubSeq(KeywordPool, 1, n[1]),
     locations |-> SubSeq(LocationPool, 1, n[2]),
     maxPages |-> n[3]] :
      n \in { m \in (1..MaxKeywords) \X (1..MaxLocations) \X (1..MaxPagesBound) :
                m[1] * m[2] * m[3] <= MaxRequests } }

baseUrl == "https://www.indeed.com"

\* An href is absent, or absolute, or rooted (starts with '/'), or
\* relative (anything else); a url is origin + pathname + search.
NoHref == [kind |-> "none", origin |-> "", pathname |-> "", search |-> ""]
Href(kind, origin, pathname, search) ==
  [kind |-> kind, origin |-> origin, pathname |-> pathname, search |-> search]

\* line 70: the selectors of a job card, '.job_seen_beacon, .resultContent,
\* .cardOutline'
JobCardSelectors == <<"job_seen_beacon", "resultContent", "cardOutline">>

\* A job card of a result page, as the selectors of parseJobs see it: the
\* title, company, location and title link of a listing, and the classes
\* of the elements that enclose them, outermost first.
Card(title, company, location, href) ==
  [title |-> title, company |-> company, location |-> location, href |-> href,
   wrappers |-> <<"job_seen_beacon">>]

\* the same listing inside other elements
Within(card, wrappers) == [card EXCEPT !.wrappers = wrappers]

LocRemote == <<"R","e","m","o","t","e">>   \* "Remote"
LocAustin == <<"A","u","s","t","i","n",","," ","T","X">>   \* "Austin, TX"
NotSpecified == <<"N","o","t"," ","s","p","e","c","i","f","i","e","d">>   \* 'Not specified'

CardNode    == Card(TitleSeniorNode, "Acme", LocRemote,
                    Href("rooted", "", "/viewjob/1", "?jk=abc123&tk=xyz"))
CardStaff   == Card(TitleStaff, "Globex", << >>,
                    Href("absolute", baseUrl, "/viewjob/2", "?from=serp"))
CardNodeBis == Card(TitleNodeJS, "Acme Corp", LocAustin,
                    Href("rooted", "", "/viewjob/1", "?jk=abc123&tk=other"))
CardNoCompany == Card(TitleManager, "", LocRemote,
                      Href("rooted", "", "/viewjob/3", ""))
CardNoLink  == Card(TitleManager, "Initech", LocRemote, NoHref)

\* Postings of result pages that earlier crawls saw.
TitleNodePostgres == <<"N","o","d","e",".","j","s"," ","P","o","s","t","g","r","e","S","Q","L"," ","D","e","v","e","l","o","p","e","r">>   \* "Node.js PostgreSQL Developer"
CardNodePostgres == Card(TitleNodePostgres, "Initech", LocAustin,
                         Href("rooted", "", "/viewjob/4", "?jk=def456"))
CardHooli == Card(TitleNodeJS, "Hooli", LocRemote,
                  Href("absolute", baseUrl, "/viewjob/5", ""))

\* The result pages a fetch may return.
Htmls ==
  { <<>>,
    <<CardNode>>,
    <<CardNode, CardStaff>>,
    <<CardNoCompany, CardNodeBis, CardNoLink>> }

\* lines 92-105: make the href absolute, then keep origin and pathname;
\* new URL() throws on a relative href, which is then kept as it is
CleanUrl(href) ==
  LET absolute == IF href.kind = "rooted"
                    THEN Href("absolute", baseUrl, href.pathname, href.search)
                    ELSE href
  IN  IF absolute.kind = "absolute"
        THEN [origin |-> absolute.origin, pathname |-> absolute.pathname, search |-> ""]
        ELSE [origin |-> absolute.origin, pathname |-> absolute.pathname,
              search |-> absolute.search]

\* lines 75-119, one element of jobCards: the job it yields, as a sequence
\* of 0 or 1 jobs; find() looks through every descendant of the element
ParseElement(card) ==
  IF Len(card.title) > 0 /\ card.company # "" /\ card.href.kind # "none"
    THEN << [title |-> card.title,
             company |-> card.company,
             location |-> IF Len(card.location) = 0 THEN NotSpecified ELSE card.location,
             job_url |-> CleanUrl(card.href),
             source |-> "indeed"] >>
    ELSE << >>

IsJobCard(class) == \E i \in 1..Len(JobCardSelectors) : JobCardSelectors[i] = class

RECURSIVE EachJobCard(_, _)
EachJobCard(wrappers, card) ==
  IF Len(wrappers) = 0 THEN << >>
  ELSE (IF IsJobCard(Head(wrappers)) THEN ParseElement(card) ELSE << >>)
         \o EachJobCard(Tail(wrappers), card)

\* lines 70-120, one listing: every enclosing element that one of the
\* selectors matches is an element of jobCards, in document order
ParseCard(card) == EachJobCard(card.wrappers, card)

\* an extractor that gives up the page at the first card that yields no job
RECURSIVE parseJobs_AbortsPage(_)
parseJobs_AbortsPage(html) ==
  IF Len(html) = 0 \/ Len(ParseCard(Head(html))) = 0 THEN << >>
  ELSE ParseCard(Head(html)) \o parseJobs_AbortsPage(Tail(html))

RECURSIVE parseJobs(_)
parseJobs(html) ==
  IF Len(html) = 0 THEN << >>
  ELSE ParseCard(Head(html)) \o parseJobs(Tail(html))

\* lines 165-177: the posting handed to saveCallback
MakeJobData(job) ==
  [title |-> job.title, company |-> job.company, location |-> job.location,
   job_url |-> job.job_url, source |-> job.source,
   keywords |-> extractKeywords(job.title),
   seniority_level |-> detectSeniority(job.title)]

\* no saveCallback is pending
NoJob ==
  [title |-> << >>, company |-> "", location |-> << >>,
   job_url |-> [origin |-> "", pathname |-> "", search |-> ""], source |-> "",
   keywords |-> {}, seniority_level |-> ""]

\* a crawl that asks for the page index instead of the result offset
Request_PageIndex(params, k, l, p) ==
  [keyword |-> params.keywords[k], location |-> params.locations[l],
   start |-> p]

\* lines 142-148: the request of one page
Request(params, k, l, p) ==
  [keyword |-> params.keywords[k], location |-> params.locations[l],
   start |-> p * PageSize]

\* line 131-135: crawl(searchParams, saveCallback) is entered; both for..of
\* loops and the page loop have a first iteration (the SearchSpec has at
\* least one keyword, one location and one page)
Invoke(c, params) ==
  /\ pc[c] = "idle"
  /\ pc' = [pc EXCEPT ![c] = "page"]
  /\ searchParams' = [searchParams EXCEPT ![c] = params]
  /\ kIdx' = [kIdx EXCEPT ![c] = 1]
  /\ lIdx' = [lIdx EXCEPT ![c] = 1]
  /\ page' = [page EXCEPT ![c] = 0]
  /\ totalJobsFound' = [totalJobsFound EXCEPT ![c] = 0]
  /\ UNCHANGED <<jobs, jobData, fetchLog, extracted, sinkCalls, slept>>
  /\ UNCHANGED <<classVars, repoVars>>

\* lines 141-153: build the url of the page and call fetchPage
StartFetch(c) ==
  /\ pc[c] = "page"
  /\ pc' = [pc EXCEPT ![c] = "fetching"]
  /\ fetchLog' = [fetchLog EXCEPT ![c] =
       Append(@, [request |-> Request(searchParams[c], kIdx[c], lIdx[c], page[c]),
                  waited |-> slept[c],
                  outcome |-> "pending"])]
  /\ slept' = [slept EXCEPT ![c] = 0]
  /\ UNCHANGED <<searchParams, kIdx, lIdx, page, jobs, jobData, totalJobsFound,
                 extracted, sinkCalls>>
  /\ UNCHANGED <<classVars, repoVars>>

SetOutcome(log, outcome) == [log EXCEPT ![Len(log)].outcome = outcome]

\* a crawl that goes on to the next page of the pair after a failed fetch
FetchFails_NextPage(c) ==
  /\ pc[c] = "fetching"
  /\ fetchLog' = [fetchLog EXCEPT ![c] = SetOutcome(@, "failed")]
  /\ IF page[c] < searchParams[c].maxPages - 1
       THEN /\ pc' = [pc EXCEPT ![c] = "page"]
            /\ page' = [page EXCEPT ![c] = @ + 1]
       ELSE /\ pc' = [pc EXCEPT ![c] = "pairSleep"]
            /\ page' = page
  /\ UNCHANGED <<searchParams, kIdx, lIdx, jobs, jobData, totalJobsFound,
                 extracted, sinkCalls, slept>>
  /\ UNCHANGED <<classVars, repoVars>>

\* a crawl that fetches the same page again after a failed fetch
FetchFails_Retries(c) ==
  /\ pc[c] = "fetching"
  /\ pc' = [pc EXCEPT ![c] = "page"]
  /\ fetchLog' = [fetchLog EXCEPT ![c] = SetOutcome(@, "failed")]
  /\ UNCHANGED <<searchParams, kIdx, lIdx, page, jobs, jobData, totalJobsFound,
                 extracted, sinkCalls, slept>>
  /\ UNCHANGED <<classVars, repoVars>>

\* lines 54-57 and 155-158: the fetch failed; fetchPage reports it as a
\* value and crawl leaves the page loop of the pair
FetchFails(c) ==
  /\ pc[c] = "fetching"
  /\ pc' = [pc EXCEPT ![c] = "pairSleep"]
  /\ fetchLog' = [fetchLog EXCEPT ![c] = SetOutcome(@, "failed")]
  /\ UNCHANGED <<searchParams, kIdx, lIdx, page, jobs, jobData, totalJobsFound,
                 extracted, sinkCalls, slept>>
  /\ UNCHANGED <<classVars, repoVars>>

\* lines 53 and 160-162: the fetch returned a page, which is parsed
FetchSucceeds(c, html) ==
  /\ pc[c] = "fetching"
  /\ pc' = [pc EXCEPT ![c] = "jobs"]
  /\ fetchLog' = [fetchLog EXCEPT ![c] = SetOutcome(@, "ok")]
  /\ jobs' = [jobs EXCEPT ![c] = parseJobs(html)]
  /\ extracted' = [extracted EXCEPT ![c] = @ + Len(parseJobs(html))]
  /\ UNCHANGED <<searchParams, kIdx, lIdx, page, jobData, totalJobsFound,
                 sinkCalls, slept>>
  /\ UNCHANGED <<classVars, repoVars>>

\* a crawl that calls saveCallback without awaiting it and goes on to the
\* next job of the page
CallSink_NoAwait(c) ==
  /\ pc[c] = "jobs"
  /\ Len(jobs[c]) > 0
  /\ jobData' = [jobData EXCEPT ![c] = MakeJobData(Head(jobs[c]))]
  /\ sinkCalls' = [sinkCalls EXCEPT ![c] = @ + 1]
  /\ jobs' = [jobs EXCEPT ![c] = Tail(@)]
  /\ UNCHANGED <<pc, searchParams, kIdx, lIdx, page, totalJobsFound,
                 fetchLog, extracted, slept>>
  /\ UNCHANGED <<classVars, repoVars>>

\* lines 165-181: classify the next job of the page and call saveCallback
CallSink(c) ==
  /\ pc[c] = "jobs"
  /\ Len(jobs[c]) > 0
  /\ pc' = [pc EXCEPT ![c] = "saving"]
  /\ jobData' = [jobData EXCEPT ![c] = MakeJobData(Head(jobs[c]))]
  /\ sinkCalls' = [sinkCalls EXCEPT ![c] = @ + 1]
  /\ UNCHANGED <<searchParams, kIdx, lIdx, page, jobs, totalJobsFound,
                 fetchLog, extracted, slept>>
  /\ UNCHANGED <<classVars, repoVars>>

\* a crawl whose posting counter is shared by every invocation
AfterSinkResolved_SharedCounter(c) ==
  /\ pc' = [pc EXCEPT ![c] = "jobs"]
  /\ totalJobsFound' = [d \in Crawls |-> totalJobsFound[d] + 1]
  /\ jobs' = [jobs EXCEPT ![c] = Tail(@)]
  /\ jobData' = [jobData EXCEPT ![c] = NoJob]
  /\ UNCHANGED <<searchParams, kIdx, lIdx, page, fetchLog, extracted,
                 sinkCalls, slept>>

\* lines 181-185: the promise of saveCallback resolved
AfterSinkResolved(c) ==
  /\ pc' = [pc EXCEPT ![c] = "jobs"]
  /\ totalJobsFound' = [totalJobsFound EXCEPT ![c] = @ + 1]
  /\ jobs' = [jobs EXCEPT ![c] = Tail(@)]
  /\ jobData' = [jobData EXCEPT ![c] = NoJob]
  /\ UNCHANGED <<searchParams, kIdx, lIdx, page, fetchLog, extracted,
                 sinkCalls, slept>>

\* line 181: the promise of saveCallback rejected; nothing in crawl()
\* catches it, so the promise of crawl() rejects
AfterSinkRejected(c) ==
  /\ pc' = [pc EXCEPT ![c] = "thrown"]
  /\ UNCHANGED <<searchParams, kIdx, lIdx, page, jobs, jobData, totalJobsFound,
                 fetchLog, extracted, sinkCalls, slept>>

\* an arbitrary saveCallback resolves
SinkResolves(c) ==
  /\ pc[c] = "saving"
  /\ AfterSinkResolved(c)
  /\ UNCHANGED <<classVars, repoVars>>

\* an arbitrary saveCallback rejects
SinkRejects(c) ==
  /\ pc[c] = "saving"
  /\ AfterSinkRejected(c)
  /\ UNCHANGED <<classVars, repoVars>>

\* a crawl that sleeps after the last page of a pair as after any page
EndPage_SleepAfterLastPage(c) ==
  /\ pc[c] = "jobs"
  /\ Len(jobs[c]) = 0
  /\ pc' = [pc EXCEPT ![c] = "pageSleep"]
  /\ UNCHANGED <<searchParams, kIdx, lIdx, page, jobs, jobData, totalJobsFound,
                 fetchLog, extracted, sinkCalls, slept>>
  /\ UNCHANGED <<classVars, repoVars>>

\* lines 187-191: every job of the page is processed
EndPage(c) ==
  /\ pc[c] = "jobs"
  /\ Len(jobs[c]) = 0
  /\ IF page[c] < searchParams[c].maxPages - 1
       THEN /\ pc' = [pc EXCEPT ![c] = "pageSleep"]
            /\ page' = page
       ELSE \* page++ ends the page loop
            /\ pc' = [pc EXCEPT ![c] = "pairSleep"]
            /\ page' = [page EXCEPT ![c] = @ + 1]
  /\ UNCHANGED <<searchParams, kIdx, lIdx, jobs, jobData, totalJobsFound,
                 fetchLog, extracted, sinkCalls, slept>>
  /\ UNCHANGED <<classVars, repoVars>>

\* lines 33-35: sleep(ms) resolves once ms have passed
Sleep(sleptBefore, ms) == sleptBefore + ms

\* line 190, then page++ and the test page < maxPages of line 141: the
\* sleep between two pages ends
PageWake(c) ==
  /\ pc[c] = "pageSleep"
  /\ slept' = [slept EXCEPT ![c] = Sleep(@, RateLimit)]
  /\ page' = [page EXCEPT ![c] = @ + 1]
  /\ pc' = [pc EXCEPT ![c] =
       IF page[c] + 1 < searchParams[c].maxPages THEN "page" ELSE "pairSleep"]
  /\ UNCHANGED <<searchParams, kIdx, lIdx, jobs, jobData, totalJobsFound,
                 fetchLog, extracted, sinkCalls>>
  /\ UNCHANGED <<classVars, repoVars>>

\* lines 137-138 and 196-201: the sleep after a pair ends; the next
\* location, else the next keyword, else return totalJobsFound
PairWake(c) ==
  /\ pc[c] = "pairSleep"
  /\ slept' = [slept EXCEPT ![c] = Sleep(@, RateLimit)]
  /\ IF lIdx[c] < Len(searchParams[c].locations)
       THEN /\ lIdx' = [lIdx EXCEPT ![c] = @ + 1]
            /\ kIdx' = kIdx
            /\ page' = [page EXCEPT ![c] = 0]
            /\ pc' = [pc EXCEPT ![c] = "page"]
       ELSE IF kIdx[c] < Len(searchParams[c].keywords)
         THEN /\ kIdx' = [kIdx EXCEPT ![c] = @ + 1]
              /\ lIdx' = [lIdx EXCEPT ![c] = 1]
              /\ page' = [page EXCEPT ![c] = 0]
              /\ pc' = [pc EXCEPT ![c] = "page"]
         ELSE /\ pc' = [pc EXCEPT ![c] = "done"]
              /\ UNCHANGED <<kIdx, lIdx, page>>
  /\ UNCHANGED <<searchParams, jobs, jobData, totalJobsFound,
                 fetchLog, extracted, sinkCalls>>
  /\ UNCHANGED <<classVars, repoVars>>

----------------------------------------------------------------------------
(* Repository: the queries of src/db over the job_repository table         *)

\* What a repository call returned: upsertJob returns {success, id} or
\* {success: false, error}; markInactive returns rowCount, or 0 on error.
Result(op, success, id, url, count, at) ==
  [op |-> op, success |-> success, id |-> id, job_url |-> url,
   count |-> count, at |-> at]

NoUrl == [origin |-> "", pathname |-> "", search |-> ""]
NoResult == Result("none", FALSE, 0, NoUrl, 0, 0)

\* INSERT INTO job_repository (...) VALUES ($1..$6, NOW()) with the column
\* defaults of the schema: id from the sequence, is_active true, created_at NOW()
InsertedRow(jd, id, t) ==
  [id |-> id, job_url |-> jd.job_url, title |-> jd.title, company |-> jd.company,
   location |-> jd.location, keywords |-> jd.keywords, source |-> jd.source,
   is_active |-> TRUE, last_verified |-> t, created_at |-> t]

\* an update that refreshes the row but leaves is_active as it was
OnConflictUpdate_KeepsInactive(row, jd, t) ==
  [row EXCEPT !.last_verified = t, !.keywords = jd.keywords]

\* an update that also takes title, company and location from the new
\* sighting
OnConflictUpdate_OverwritesFields(row, jd, t) ==
  [row EXCEPT !.last_verified = t, !.is_active = TRUE, !.keywords = jd.keywords,
              !.title = jd.title, !.company = jd.company, !.location = jd.location]

\* an update that merges the keywords of the new sighting into the stored set
OnConflictUpdate_MergesKeywords(row, jd, t) ==
  [row EXCEPT !.last_verified = t, !.is_active = TRUE,
              !.keywords = @ \cup jd.keywords]

\* ON CONFLICT (job_url) DO UPDATE SET last_verified = NOW(),
\*   is_active = true, keywords = EXCLUDED.keywords
OnConflictUpdate(row, jd, t) ==
  [row EXCEPT !.last_verified = t, !.is_active = TRUE, !.keywords = jd.keywords]

\* an INSERT without the ON CONFLICT clause, on a table without the
\* UNIQUE constraint
UpsertRows_AlwaysInserts(rs, jd, id, t) ==
  rs \cup { InsertedRow(jd, id, t) }

\* an upsert that replaces the row of the url by a new row
UpsertRows_Replaces(rs, jd, id, t) ==
  { r \in rs : r.job_url # jd.job_url } \cup { InsertedRow(jd, id, t) }

\* the table after the INSERT ... ON CONFLICT statement
UpsertRows(rs, jd, id, t) ==
  IF \E r \in rs : r.job_url = jd.job_url
    THEN { IF r.job_url = jd.job_url THEN OnConflictUpdate(r, jd, t) ELSE r : r \in rs }
    ELSE rs \cup { InsertedRow(jd, id, t) }

\* RETURNING id
ReturnedId(rs, jd) == (CHOOSE r \in rs : r.job_url = jd.job_url).id

\* upsertJob(jobData), lines 124-152. The statement takes a value of the id
\* sequence whether it inserts or updates; the database rejects it when it
\* is unreachable or the sequence is exhausted, and upsertJob then returns
\* {success: false}.
UpsertEffect(jd, accepted) ==
  IF accepted /\ serial <= MaxSerial
    THEN /\ rows' = UpsertRows(rows, jd, serial, now)
         /\ serial' = serial + 1
         /\ result' = Result("upsertJob", TRUE,
                             ReturnedId(UpsertRows(rows, jd, serial, now), jd),
                             jd.job_url, 0, now)
    ELSE /\ result' = Result("upsertJob", FALSE, 0, jd.job_url, 0, now)
         /\ UNCHANGED <<rows, serial>>

UpsertJob(jd) ==
  /\ \E accepted \in BOOLEAN : UpsertEffect(jd, accepted)
  /\ UNCHANGED <<now, swept, found>>
  /\ UNCHANGED <<classVars, crawlVars>>

\* a sweep with no staleness window: whatever was not verified just now
IsStale_NoWindow(row, t) == row.last_verified < t /\ row.is_active

\* the WHERE clause without its second condition
IsStale_WhateverActive(row, t) == row.last_verified < t - StaleDays

\* a sweep whose window includes the seventh day: last_verified <= NOW() - 7 days
IsStale_Inclusive(row, t) == row.last_verified <= t - StaleDays /\ row.is_active

\* WHERE last_verified < NOW() - INTERVAL '7 days' AND is_active = true
IsStale(row, t) == row.last_verified < t - StaleDays /\ row.is_active

\* a sweep that deletes the stale rows: DELETE FROM job_repository WHERE ...
MarkInactiveRows_Deletes(rs, t) == { r \in rs : ~IsStale(r, t) }

\* UPDATE job_repository SET is_active = false WHERE ...
MarkInactiveRows(rs, t) ==
  { IF IsStale(r, t) THEN [r EXCEPT !.is_active = FALSE] ELSE r : r \in rs }

\* markInactive(), lines 184-200
MarkInactive ==
  /\ \E accepted \in BOOLEAN :
       IF accepted
         THEN /\ rows' = MarkInactiveRows(rows, now)
              /\ result' = Result("markInactive", TRUE, 0, NoUrl,
                                  Cardinality({ r \in rows : IsStale(r, now) }), now)
              /\ swept' = swept \cup { r.id : r \in { q \in rows : IsStale(q, now) } }
         ELSE /\ result' = Result("markInactive", FALSE, 0, NoUrl, 0, now)
              /\ UNCHANGED <<rows, swept>>
  /\ UNCHANGED <<serial, now, found>>
  /\ UNCHANGED <<classVars, crawlVars>>

\* a day passes
Tick ==
  /\ now < MaxTime
  /\ now' = now + 1
  /\ UNCHANGED <<rows, serial, result, swept, found>>
  /\ UNCHANGED <<classVars, crawlVars>>

Min(a, b) == IF a < b THEN a ELSE b

\* s LIKE p: % matches any run of characters, _ any one character
RECURSIVE Like(_, _)
Like(s, p) ==
  IF Len(p) = 0 THEN Len(s) = 0
  ELSE IF Head(p) = "%" THEN Like(s, Tail(p)) \/ (Len(s) > 0 /\ Like(Tail(s), p))
  ELSE /\ Len(s) > 0
       /\ Head(p) = "_" \/ Head(p) = Head(s)
       /\ Like(Tail(s), Tail(p))

\* s ILIKE p
ILike(s, p) == Like(toLowerCase(s), toLowerCase(p))

\* the WHERE clause without its first condition
SearchWhere_WhateverActive(row, keywords, location) ==
  /\ row.keywords \cap keywords # {}
  /\ ILike(row.location, location)

\* WHERE is_active = true AND keywords && $1::text[] AND location ILIKE $2
SearchWhere(row, keywords, location) ==
  /\ row.is_active
  /\ row.keywords \cap keywords # {}
  /\ ILike(row.location, location)

\* ORDER BY last_verified DESC: every order of the rows in which
\* last_verified never rises; rows verified at the same time come in any
\* order
OrderByLastVerifiedDesc(rs) ==
  { s \in [1..Cardinality(rs) -> rs] :
      /\ \A i, j \in 1..Cardinality(rs) : i # j => s[i] # s[j]
      /\ \A i, j \in 1..Cardinality(rs) : i < j => s[i].last_verified >= s[j].last_verified }

\* what searchJobs / getStats returned, with the arguments of the call
Found(op, ok, keywords, location, limit, rs, stats) ==
  [op |-> op, ok |-> ok, keywords |-> keywords, location |-> location,
   limit |-> limit, rows |-> rs, stats |-> stats]

NoStats == [total_jobs |-> 0, active_jobs |-> 0, unique_companies |-> 0, sources |-> 0]
NoFound == Found("none", FALSE, {}, << >>, 0, << >>, NoStats)

\* searchJobs(keywords, location, limit), lines 161-178: the rows of the
\* SELECT, or [] when the database rejects the query
SearchJobs(keywords, location, limit) ==
  /\ \E accepted \in BOOLEAN :
       IF accepted
         THEN \E ordered \in OrderByLastVerifiedDesc(
                               { r \in rows : SearchWhere(r, keywords, location) }) :
                found' = Found("searchJobs", TRUE, keywords, location, limit,
                               SubSeq(ordered, 1, Min(limit, Len(ordered))), NoStats)
         ELSE found' = Found("searchJobs", FALSE, keywords, location, limit, << >>, NoStats)
  /\ UNCHANGED <<rows, serial, now, result, swept>>
  /\ UNCHANGED <<classVars, crawlVars>>

\* getStats(), lines 206-223: the counts of the SELECT, or null when the
\* database rejects the query
GetStats ==
  /\ \E accepted \in BOOLEAN :
       IF accepted
         THEN found' = Found("getStats", TRUE, {}, << >>, 0, << >>,
                [total_jobs |-> Cardinality(rows),
                 active_jobs |-> Cardinality({ r \in rows : r.is_active }),
                 unique_companies |-> Cardinality({ r.company : r \in rows }),
                 sources |-> Cardinality({ r.source : r \in rows })])
         ELSE found' = Found("getStats", FALSE, {}, << >>, 0, << >>, NoStats)
  /\ UNCHANGED <<rows, serial, now, result, swept>>
  /\ UNCHANGED <<classVars, crawlVars>>

\* the postings a crawl can hand to the sink
JobDatas ==
  UNION { { MakeJobData(parseJobs(html)[i]) : i \in 1..Len(parseJobs(html)) } :
          html \in Htmls }

----------------------------------------------------------------------------
(* Host: src/index.js                                                      *)

\* a sink that rejects when upsertJob reports a failure
SaveJobToDatabase_Rethrows(c) ==
  /\ pc[c] = "saving"
  /\ \E accepted \in BOOLEAN :
       /\ UpsertEffect(jobData[c], accepted)
       /\ IF accepted /\ serial <= MaxSerial
            THEN AfterSinkResolved(c)
            ELSE AfterSinkRejected(c)
  /\ UNCHANGED <<now, swept, found>>
  /\ UNCHANGED classVars

\* saveJobToDatabase(jobData), lines 17-28: upsertJob reports its failure
\* as a value, which is logged; the promise resolves either way
SaveJobToDatabase(c) ==
  /\ pc[c] = "saving"
  /\ \E accepted \in BOOLEAN : UpsertEffect(jobData[c], accepted)
  /\ AfterSinkResolved(c)
  /\ UNCHANGED <<now, swept, found>>
  /\ UNCHANGED classVars

----------------------------------------------------------------------------
(* Classifier harness                                                      *)

Classify ==
  /\ cpc = "input"
  /\ matched' = extractKeywords(text)
  /\ level' = detectSeniority(text)
  /\ cpc' = "classified"
  /\ UNCHANGED <<text, doc, parsed>>
  /\ UNCHANGED <<crawlVars, repoVars>>

----------------------------------------------------------------------------
(* Extractor harness                                                       *)

\* a card whose link is relative to the page: href="rc/clk?jk=abc123&tk=xyz"
CardRelative == Card(TitleNodeJS, "Umbrella", LocRemote,
                     Href("relative", "", "rc/clk", "?jk=abc123&tk=xyz"))

\* a listing as the result pages nest it: div.cardOutline > div.job_seen_beacon
\* > td.resultContent > h2.jobTitle
CardNested == Within(CardHooli, <<"cardOutline", "job_seen_beacon", "resultContent">>)

\* a listing inside div.cardOutline only
CardOutlined == Within(CardStaff, <<"cardOutline">>)

\* a listing inside an element that no selector matches: div.result
CardPlain == Within(CardNodePostgres, <<"result">>)

CardPool ==
  { CardNode, CardStaff, CardNodeBis, CardNoCompany, CardNoLink,
    CardNodePostgres, CardRelative, CardNested, CardOutlined, CardPlain }

\* every result page of at most MaxCards cards of the pool
Docs == UNION { [1..n -> CardPool] : n \in 0..MaxCards }

\* parseJobs(html), then lines 165-177 of crawl() on each job
ParseJobs ==
  /\ cpc = "document"
  /\ parsed' = [i \in 1..Len(parseJobs(doc)) |-> MakeJobData(parseJobs(doc)[i])]
  /\ cpc' = "parsed"
  /\ UNCHANGED <<text, matched, level, doc>>
  /\ UNCHANGED <<crawlVars, repoVars>>

\* lines 53 and 160-162 of crawl(), with the page that was fetched kept
\* for inspection
FetchReturnsPage(c, html) ==
  /\ pc[c] = "fetching"
  /\ pc' = [pc EXCEPT ![c] = "jobs"]
  /\ fetchLog' = [fetchLog EXCEPT ![c] = SetOutcome(@, "ok")]
  /\ jobs' = [jobs EXCEPT ![c] = parseJobs(html)]
  /\ extracted' = [extracted EXCEPT ![c] = @ + Len(parseJobs(html))]
  /\ doc' = html
  /\ UNCHANGED <<searchParams, kIdx, lIdx, page, jobData, totalJobsFound,
                 sinkCalls, slept>>
  /\ UNCHANGED <<text, matched, level, cpc, parsed>>
  /\ UNCHANGED repoVars

----------------------------------------------------------------------------
(* CareerPageCrawler: parseJobListings, keywords.js lines 130-222           *)

\* An element of a career page: a leaf (a heading, a link, a span) with its
\* text, or a box (div, li, section, a) with its children. A page is the
\* sequence of the boxes of its body, written one element per line.
Leaf(tag, class, content, href) ==
  [tag |-> tag, class |-> class, jobId |-> FALSE, text |-> content, href |-> href,
   children |-> << >>]
Box(tag, class, jobId, children) ==
  [tag |-> tag, class |-> class, jobId |-> jobId, text |-> << >>, href |-> NoHref,
   children |-> children]

\* String.prototype.includes
Includes(s, sub) == \E p \in 1..(Len(s) - Len(sub) + 1) : LiteralAt(s, sub, p)

\* the class selector .name: name is one of the space-separated classes
HasClass(class, name) ==
  \E p \in 1..(Len(class) - Len(name) + 1) :
    /\ LiteralAt(class, name, p)
    /\ p = 1 \/ class[p - 1] = " "
    /\ p + Len(name) - 1 = Len(class) \/ class[p + Len(name)] = " "

\* a selector: tag (or "" for any), then [data-job-id], .name or [class*="name"]
Sel(tag, kind, name) == [tag |-> tag, kind |-> kind, name |-> name]

\* lines 135-149: the selectors, in the order they are tried
selectors ==
  << Sel("", "attr", <<>>),
     Sel("", "class", <<"j","o","b","-","l","i","s","t","i","n","g">>),
     Sel("", "class", <<"j","o","b","-","i","t","e","m">>),
     Sel("", "class", <<"c","a","r","e","e","r","-","i","t","e","m">>),
     Sel("", "class", <<"p","o","s","i","t","i","o","n">>),
     Sel("", "class", <<"o","p","e","n","i","n","g">>),
     Sel("", "contains", <<"j","o","b">>),
     Sel("", "contains", <<"p","o","s","i","t","i","o","n">>),
     Sel("", "contains", <<"c","a","r","e","e","r">>),
     Sel("article", "contains", <<"j","o","b">>),
     Sel("div", "contains", <<"J","o","b","C","a","r","d">>),
     Sel("li", "contains", <<"j","o","b">>) >>

SelectorMatches(sel, el) ==
  /\ sel.tag = "" \/ sel.tag = el.tag
  /\ CASE sel.kind = "attr" -> el.jobId
       [] sel.kind = "class" -> HasClass(el.class, sel.name)
       [] OTHER -> Includes(el.class, sel.name)

\* the elements of a page in document order: box b itself (child 0), then
\* its children
RECURSIVE NodesFrom(_, _)
NodesFrom(html, b) ==
  IF b > Len(html) THEN << >>
  ELSE [n \in 1..(Len(html[b].children) + 1) |-> [box |-> b, child |-> n - 1]]
         \o NodesFrom(html, b + 1)

ElementAt(html, n) ==
  IF n.child = 0 THEN html[n.box] ELSE html[n.box].children[n.child]

\* $(selector)
Select(html, sel) ==
  LET Hit(n) == SelectorMatches(sel, ElementAt(html, n))
  IN  SelectSeq(NodesFrom(html, 1), Hit)

\* lines 167-172: the words a heading of a job holds
JobNouns ==
  { <<"e","n","g","i","n","e","e","r">>, <<"d","e","v","e","l","o","p","e","r">>, <<"a","n","a","l","y","s","t">>, <<"m","a","n","a","g","e","r">>, <<"d","e","s","i","g","n","e","r">>, <<"s","c","i","e","n","t","i","s","t">> }

\* lines 164-174: $('h2, h3, h4').filter(...)
IsJobHeading(el) ==
  /\ el.tag \in {"h2", "h3", "h4"}
  /\ \E noun \in JobNouns : Includes(toLowerCase(el.text), noun)

\* line 174: .parent() of the headings, each parent once, in document order
HeadingParents(html) ==
  LET Hit(n) == /\ n.child = 0
                /\ \E j \in 1..Len(html[n.box].children) :
                     IsJobHeading(html[n.box].children[j])
  IN  SelectSeq(NodesFrom(html, 1), Hit)

\* lines 151-175: the elements of the first selector that matches any, or
\* else the parents of the headings of jobs
JobElements(html) ==
  LET hits == { p \in 1..Len(selectors) : Len(Select(html, selectors[p])) > 0 }
  IN  IF hits # {}
        THEN Select(html, selectors[CHOOSE p \in hits : \A q \in hits : p <= q])
        ELSE HeadingParents(html)

\* the regex classes \s, [A-Z] and [a-z]
SpaceChars == {" ", "\n", "\t"}
UpperSet == { UpperChars[i] : i \in 1..26 }
LowerSet == { LowerChars[i] : i \in 1..26 }

\* String.prototype.trim
RECURSIVE trim(_)
trim(s) ==
  IF Len(s) = 0 THEN s
  ELSE IF s[1] \in SpaceChars THEN trim(Tail(s))
  ELSE IF s[Len(s)] \in SpaceChars THEN trim(SubSeq(s, 1, Len(s) - 1))
  ELSE s

RECURSIVE LinesOf(_)
LinesOf(children) ==
  IF Len(children) = 0 THEN << >>
  ELSE <<"\n">> \o Head(children).text \o LinesOf(Tail(children))

\* .text() of an element: its own text, or the texts of its children, one
\* per line
TextOf(el) ==
  IF Len(el.children) = 0 THEN el.text ELSE LinesOf(el.children) \o <<"\n">>

\* .split('\n')[0]
FirstLine(s) ==
  IF \E p \in 1..Len(s) : s[p] = "\n"
    THEN SubSeq(s, 1, (CHOOSE p \in 1..Len(s) :
                         s[p] = "\n" /\ \A q \in 1..(p - 1) : s[q] # "\n") - 1)
    ELSE s

\* the end of the longest run of characters of one class that starts at p
\* (p - 1 when there is none)
RunEnd(s, p, chars) ==
  CHOOSE e \in (p - 1)..Len(s) :
    /\ \A k \in p..e : s[k] \in chars
    /\ e = Len(s) \/ s[e + 1] \notin chars

\* ,\s*[A-Z]{2} at position p: the position of its last character, or 0
CommaState(s, p) ==
  IF p <= Len(s) /\ s[p] = ","
    THEN LET b == RunEnd(s, p + 1, SpaceChars)
         IN  IF b + 2 <= Len(s) /\ s[b + 1] \in UpperSet /\ s[b + 2] \in UpperSet
               THEN b + 2 ELSE 0
    ELSE 0

\* [A-Z][a-z]+ at position p: the position of its last character, or 0
CapitalWord(s, p) ==
  IF p <= Len(s) /\ s[p] \in UpperSet /\ RunEnd(s, p + 1, LowerSet) > p
    THEN RunEnd(s, p + 1, LowerSet) ELSE 0

\* line 195: where a match of (Remote|Hybrid|[A-Z][a-z]+,\s*[A-Z]{2}|
\* [A-Z][a-z]+\s+[A-Z][a-z]+,\s*[A-Z]{2}) that starts at p ends, or 0
LocationEnd(s, p) ==
  IF LiteralAt(s, <<"R","e","m","o","t","e">>, p) THEN p + 5
  ELSE IF LiteralAt(s, <<"H","y","b","r","i","d">>, p) THEN p + 5
  ELSE IF CapitalWord(s, p) > 0 /\ CommaState(s, CapitalWord(s, p) + 1) > 0
    THEN CommaState(s, CapitalWord(s, p) + 1)
  ELSE IF CapitalWord(s, p) > 0
    THEN LET a == CapitalWord(s, p)
             b == RunEnd(s, a + 1, SpaceChars)
         IN  IF b > a /\ CapitalWord(s, b + 1) > 0
               THEN CommaState(s, CapitalWord(s, b + 1) + 1)
               ELSE 0
  ELSE 0

\* text.match(...)[0], or the empty string when there is no match
LocationMatch(s) ==
  IF \E p \in 1..Len(s) : LocationEnd(s, p) > 0
    THEN LET first == CHOOSE p \in 1..Len(s) :
                        /\ LocationEnd(s, p) > 0
                        /\ \A q \in 1..(p - 1) : LocationEnd(s, q) = 0
         IN  SubSeq(s, first, LocationEnd(s, first))
    ELSE << >>

\* line 93: this.companies, the entries of data/companies.json
companies ==
  << [name |-> "Acme", careerUrl |-> "https://careers.acme.example"],
     [name |-> "Globex", careerUrl |-> "https://globex.example"] >>

\* url: jobUrl || 'URL not found'
UrlNotFound == [origin |-> "", pathname |-> "URL not found", search |-> ""]

\* lines 201-204: new URL() throws on an empty base and on an href that is
\* no url reference (such as "//")
UrlThrows(href, companyName) ==
  /\ href.kind \notin {"none", "absolute"}
  /\ \/ ~\E i \in 1..Len(companies) : companies[i].name = companyName
     \/ href.kind = "invalid"

\* lines 200-205: an href that does not start with 'http' is resolved
\* against the origin of the career page of the company
ResolveUrl(href, companyName) ==
  LET origin == companies[CHOOSE i \in 1..Len(companies) :
                            companies[i].name = companyName].careerUrl
  IN  CASE href.kind = "none" -> UrlNotFound
        [] href.kind = "absolute" ->
             [origin |-> href.origin, pathname |-> href.pathname, search |-> href.search]
        [] href.kind = "rooted" ->
             [origin |-> origin, pathname |-> href.pathname, search |-> href.search]
        [] OTHER ->
             [origin |-> origin, pathname |-> "/" \o href.pathname, search |-> href.search]

IsTitleElement(el) ==
  \/ el.tag \in {"h1", "h2", "h3", "h4"}
  \/ Includes(el.class, <<"t","i","t","l","e">>)
  \/ Includes(el.class, <<"T","i","t","l","e">>)

IsLocationElement(el) ==
  Includes(el.class, <<"l","o","c","a","t","i","o","n">>) \/ Includes(el.class, <<"L","o","c","a","t","i","o","n">>)

IsLink(el) == el.tag = "a"

\* .first().text().trim() of the elements that find() returned
FirstText(elements) ==
  IF Len(elements) = 0 THEN << >> ELSE trim(elements[1].text)

\* lines 177-219, one element of jobElements: the job it yields, as a
\* sequence of 0 or 1 jobs
ParseListing(el, companyName) ==
  LET byTitle == FirstText(SelectSeq(el.children, IsTitleElement))
      byLink == IF Len(byTitle) = 0 THEN FirstText(SelectSeq(el.children, IsLink)) ELSE byTitle
      title == IF Len(byLink) = 0 THEN trim(FirstLine(TextOf(el))) ELSE byLink
      byClass == FirstText(SelectSeq(el.children, IsLocationElement))
      location == IF Len(byClass) = 0
                    THEN (IF Len(LocationMatch(TextOf(el))) = 0
                            THEN NotSpecified ELSE LocationMatch(TextOf(el)))
                    ELSE byClass
      links == SelectSeq(el.children, IsLink)
      href == IF Len(links) = 0 THEN NoHref ELSE links[1].href
  IN  IF UrlThrows(href, companyName) THEN << >>
      ELSE IF Len(title) > 5
        THEN << [title |-> title, company |-> companyName, location |-> location,
                 url |-> ResolveUrl(href, companyName)] >>
        ELSE << >>

RECURSIVE EachListing(_, _, _)
EachListing(html, elements, companyName) ==
  IF Len(elements) = 0 THEN << >>
  ELSE ParseListing(ElementAt(html, Head(elements)), companyName)
         \o EachListing(html, Tail(elements), companyName)

\* parseJobListings(html, companyName), lines 130-222
parseJobListings(html, companyName) ==
  EachListing(html, JobElements(html), companyName)

----------------------------------------------------------------------------
(* Career page harness                                                     *)

NoClass == << >>
TitleDataEngineer == <<"S","e","n","i","o","r"," ","D","a","t","a"," ","E","n","g","i","n","e","e","r">>   \* "Senior Data Engineer"

\* <div><h3>Senior Data Engineer</h3><a href="/careers/123?ref=home">Apply</a></div>
BoxLinked ==
  Box("div", NoClass, FALSE,
      << Leaf("h3", NoClass, TitleDataEngineer, NoHref),
         Leaf("a", NoClass, <<"A","p","p","l","y">>, Href("rooted", "", "/careers/123", "?ref=home")) >>)

\* <a href="/careers/123"><h3>Senior Data Engineer</h3></a>
BoxAnchor ==
  Box("a", NoClass, FALSE, << Leaf("h3", NoClass, TitleDataEngineer, NoHref) >>)

\* <div><h2>Jobs</h2><h3>Data Engineer</h3><a href="/careers/124">Apply</a></div>
BoxJobsHeading ==
  Box("div", NoClass, FALSE,
      << Leaf("h2", NoClass, <<"J","o","b","s">>, NoHref),
         Leaf("h3", NoClass, <<"D","a","t","a"," ","E","n","g","i","n","e","e","r">>, NoHref),
         Leaf("a", NoClass, <<"A","p","p","l","y">>, Href("rooted", "", "/careers/124", "")) >>)

\* <div class="job-listing"><h3 class="job-title">Backend Developer</h3>
\* <span class="location">Austin, TX</span><a href="https://...">View</a></div>
BoxListing ==
  Box("div", <<"j","o","b","-","l","i","s","t","i","n","g">>, FALSE,
      << Leaf("h3", <<"j","o","b","-","t","i","t","l","e">>, <<"B","a","c","k","e","n","d"," ","D","e","v","e","l","o","p","e","r">>, NoHref),
         Leaf("span", <<"l","o","c","a","t","i","o","n">>, LocAustin, NoHref),
         Leaf("a", NoClass, <<"V","i","e","w">>,
              Href("absolute", "https://careers.acme.example", "/jobs/7", "?src=list")) >>)

\* <div><h2>About our culture</h2></div>
BoxAbout ==
  Box("div", NoClass, FALSE, << Leaf("h2", NoClass, <<"A","b","o","u","t"," ","o","u","r"," ","c","u","l","t","u","r","e">>, NoHref) >>)

\* <li class="opening"><a href="openings/9">Product Designer</a></li>
BoxOpening ==
  Box("li", <<"o","p","e","n","i","n","g">>, FALSE,
      << Leaf("a", NoClass, <<"P","r","o","d","u","c","t"," ","D","e","s","i","g","n","e","r">>, Href("relative", "", "openings/9", "")) >>)

\* <div><h4>UX DESIGNER</h4><p>Remote</p></div>
BoxUpper ==
  Box("div", NoClass, FALSE,
      << Leaf("h4", NoClass, <<"U","X"," ","D","E","S","I","G","N","E","R">>, NoHref),
         Leaf("p", NoClass, LocRemote, NoHref) >>)

\* <div><h3>Data Analyst</h3><h3>Research Scientist</h3></div>
BoxTwoHeadings ==
  Box("div", NoClass, FALSE,
      << Leaf("h3", NoClass, <<"D","a","t","a"," ","A","n","a","l","y","s","t">>, NoHref),
         Leaf("h3", NoClass, <<"R","e","s","e","a","r","c","h"," ","S","c","i","e","n","t","i","s","t">>, NoHref) >>)

\* <div class="position"><h3>QA Manager</h3><a href="//">Details</a></div>
BoxBadLink ==
  Box("div", <<"p","o","s","i","t","i","o","n">>, FALSE,
      << Leaf("h3", NoClass, <<"Q","A"," ","M","a","n","a","g","e","r">>, NoHref),
         Leaf("a", NoClass, <<"D","e","t","a","i","l","s">>, Href("invalid", "", "//", "")) >>)

BoxPool ==
  { BoxLinked, BoxAnchor, BoxJobsHeading, BoxListing, BoxAbout, BoxOpening,
    BoxUpper, BoxTwoHeadings, BoxBadLink }

\* every career page of at most MaxCards boxes of the pool, fetched for a
\* company of this.companies (lines 232-244)
CareerDocs ==
  { [html |-> h, companyName |-> companies[i].name] :
      h \in UNION { [1..n -> BoxPool] : n \in 0..MaxCards },
      i \in 1..Len(companies) }

\* line 244: parseJobListings(html, company.name)
ParseJobListings ==
  /\ cpc = "career"
  /\ parsed' = parseJobListings(doc.html, doc.companyName)
  /\ cpc' = "listed"
  /\ UNCHANGED <<text, matched, level, doc>>
  /\ UNCHANGED <<crawlVars, repoVars>>

----------------------------------------------------------------------------
(* Specifications                                                          *)

NoParams == [keywords |-> << >>, locations |-> << >>, maxPages |-> 0]

InitCrawl ==
  /\ pc = [c \in Crawls |-> "idle"]
  /\ searchParams = [c \in Crawls |-> NoParams]
  /\ kIdx = [c \in Crawls |-> 0]
  /\ lIdx = [c \in Crawls |-> 0]
  /\ page = [c \in Crawls |-> 0]
  /\ jobs = [c \in Crawls |-> << >>]
  /\ jobData = [c \in Crawls |-> NoJob]
  /\ totalJobsFound = [c \in Crawls |-> 0]
  /\ fetchLog = [c \in Crawls |-> << >>]
  /\ extracted = [c \in Crawls |-> 0]
  /\ sinkCalls = [c \in Crawls |-> 0]
  /\ slept = [c \in Crawls |-> 0]

InitRepo ==
  /\ rows = {}
  /\ serial = 1
  /\ now = 0
  /\ result = NoResult
  /\ swept = {}
  /\ found = NoFound

InitClassIdle ==
  /\ text = << >>
  /\ matched = {}
  /\ level = ""
  /\ cpc = "idle"
  /\ doc = << >>
  /\ parsed = << >>

\* one call of the classifier on any title
InitClassify ==
  /\ text \in Titles
  /\ matched = {}
  /\ level = ""
  /\ cpc = "input"
  /\ doc = << >>
  /\ parsed = << >>
  /\ InitCrawl
  /\ InitRepo

NextClassify == Classify

\* one call of the extractor on any result page
InitParse ==
  /\ text = << >>
  /\ matched = {}
  /\ level = ""
  /\ cpc = "document"
  /\ doc \in Docs
  /\ parsed = << >>
  /\ InitCrawl
  /\ InitRepo

NextParse == ParseJobs

SpecParse == InitParse /\ [][NextParse]_vars

SpecClassify == InitClassify /\ [][NextClassify]_vars

\* one call of parseJobListings on any career page
InitCareer ==
  /\ text = << >>
  /\ matched = {}
  /\ level = ""
  /\ cpc = "career"
  /\ doc \in CareerDocs
  /\ parsed = << >>
  /\ InitCrawl
  /\ InitRepo

NextCareer == ParseJobListings

SpecCareer == InitCareer /\ [][NextCareer]_vars

Init ==
  /\ InitClassIdle
  /\ InitCrawl
  /\ InitRepo

\* one invocation of crawl() with an arbitrary saveCallback
NextCrawl ==
  \/ \E params \in SearchSpecs : Invoke("startup", params)
  \/ \E c \in Crawls :
       \/ StartFetch(c)
       \/ FetchFails(c)
       \/ \E html \in Htmls : FetchSucceeds(c, html)
       \/ CallSink(c)
       \/ SinkResolves(c)
       \/ SinkRejects(c)
       \/ EndPage(c)
       \/ PageWake(c)
       \/ PairWake(c)

SpecCrawl == Init /\ [][NextCrawl]_vars

\* the steps of crawl() that wait for something outside it: a response or
\* a timeout of axios.get, the settling of the promise of the sink, the
\* timer of sleep(); and the step to the next page
CrawlStep(c) ==
  \/ StartFetch(c)
  \/ FetchFails(c)
  \/ \E html \in Htmls : FetchSucceeds(c, html)
  \/ SinkResolves(c)
  \/ SinkRejects(c)
  \/ EndPage(c)
  \/ PageWake(c)
  \/ PairWake(c)

\* the loop over jobs has a posting to pass on: CallSink(c) is enabled
SinkDue(c) == pc[c] = "jobs" /\ Len(jobs[c]) > 0

\* crawl() in an environment that answers: axios.get returns or times out
\* (timeout: 10000), the timer of sleep() fires, the promise of the sink
\* settles, and the loop over jobs goes on: every step CallSink(c) leaves
\* SinkDue(c), so that []<>~SinkDue(c) is WF_vars(CallSink(c))
SpecCrawlLive ==
  /\ Init
  /\ [][NextCrawl]_vars
  /\ WF_vars(CrawlStep("startup"))
  /\ []<>~SinkDue("startup")

\* the search configuration of the host: the first keyword and the
\* location of config.searchConfigs, with the default of config.crawler.maxPages
HostSearchSpec ==
  [keywords |-> SubSeq(KeywordPool, 1, 1), locations |-> SubSeq(LocationPool, 1, 1),
   maxPages |-> 2]

\* one invocation of crawl() over the pages of the extractor harness, for
\* the search of the host and an arbitrary saveCallback
NextPages ==
  \/ Invoke("startup", HostSearchSpec)
  \/ StartFetch("startup")
  \/ FetchFails("startup")
  \/ \E html \in Docs : FetchReturnsPage("startup", html)
  \/ CallSink("startup")
  \/ SinkResolves("startup")
  \/ SinkRejects("startup")
  \/ EndPage("startup")
  \/ PageWake("startup")
  \/ PairWake("startup")

SpecPages == Init /\ [][NextPages]_vars

\* the repository under any sequence of calls, as days pass
NextRepo ==
  \/ \E jd \in JobDatas : UpsertJob(jd)
  \/ MarkInactive
  \/ Tick

SpecRepo == Init /\ [][NextRepo]_vars

\* upsertJob takes source from its argument (line 125): postings of the
\* indeed crawler, and a posting of another source (the 'career_page' of
\* keywords.js line 272) under a url that the indeed crawler also reports
SourcedJobDatas ==
  { MakeJobData(ParseCard(CardNode)[1]),
    MakeJobData(ParseCard(CardStaff)[1]),
    [MakeJobData(ParseCard(CardNode)[1]) EXCEPT !.source = "career_page"] }

\* the repository called with postings of both sources, as days pass
NextRepoSources ==
  \/ \E jd \in SourcedJobDatas : UpsertJob(jd)
  \/ MarkInactive
  \/ Tick

SpecRepoSources == Init /\ [][NextRepoSources]_vars

\* The tables that earlier runs left to the day StaleDays + 1, each with
\* the next value of its id sequence: built by the upserts of those runs,
\* on the days given.
StoredTables ==
  LET node == MakeJobData(ParseCard(CardNode)[1])
      nodePostgres == MakeJobData(ParseCard(CardNodePostgres)[1])
      hooli == MakeJobData(ParseCard(CardHooli)[1])
      first == UpsertRows({}, node, 1, 0)
  IN  { [rows |-> first, serial |-> 2],
        [rows |-> UpsertRows(UpsertRows(first, nodePostgres, 2, 5), hooli, 3, StaleDays + 1),
         serial |-> 4],
        [rows |-> UpsertRows(UpsertRows(first, nodePostgres, 2, 5), hooli, 3, 5),
         serial |-> 4] }

\* The arguments of searchJobs: keyword sets, ILIKE patterns, limits.
QueryKeywords ==
  { { <<"n","o","d","e">>, <<"n","o","d","e","j","s">> },
    { <<"p","o","s","t","g","r","e","s","q","l">> } }
QueryLocations ==
  { <<"%">>,
    <<"r","e","m","o","t","e">>,
    <<"%",","," ","T","X">> }
QueryLimits == 1..MaxLimit

InitQuery ==
  /\ InitClassIdle
  /\ InitCrawl
  /\ \E t \in StoredTables : rows = t.rows /\ serial = t.serial
  /\ now = StaleDays + 1
  /\ result = NoResult
  /\ swept = {}
  /\ found = NoFound

\* the repository on the day StaleDays + 1, under any sequence of its four
\* calls
NextQuery ==
  \/ \E jd \in JobDatas : UpsertJob(jd)
  \/ MarkInactive
  \/ \E keywords \in QueryKeywords, location \in QueryLocations, limit \in QueryLimits :
       SearchJobs(keywords, location, limit)
  \/ GetStats

SpecQuery == InitQuery /\ [][NextQuery]_vars

\* The host starts on an empty table, or on the table an earlier run left:
\* a posting stored StaleDays + 1 days ago and not seen since.
InitHostRepo ==
  \/ InitRepo
  \/ /\ rows = { InsertedRow(MakeJobData(ParseCard(CardNode)[1]), 1, 0) }
     /\ serial = 2
     /\ now = StaleDays + 1
     /\ result = NoResult
     /\ swept = {}
     /\ found = NoFound

InitHost ==
  /\ InitClassIdle
  /\ InitCrawl
  /\ InitHostRepo

\* the host: runCrawlers at startup and on the crawl schedule, each crawl
\* saving through saveJobToDatabase, cleanupOldJobs on its own schedule
Next ==
  \/ \E c \in Crawls : Invoke(c, HostSearchSpec)
  \/ \E c \in Crawls :
       \/ StartFetch(c)
       \/ FetchFails(c)
       \/ \E html \in Htmls : FetchSucceeds(c, html)
       \/ CallSink(c)
       \/ SaveJobToDatabase(c)
       \/ EndPage(c)
       \/ PageWake(c)
       \/ PairWake(c)
  \/ MarkInactive

Spec == InitHost /\ [][Next]_vars

----------------------------------------------------------------------------
(* Properties of crawl()                                                   *)

IndexOf(seq, x) == CHOOSE i \in 1..Len(seq) : seq[i] = x

\* the number of the (keyword, location) pair of a request, in the order
\* keyword (outer), location (inner)
PairNo(c, request) ==
  (IndexOf(searchParams[c].keywords, request.keyword) - 1)
      * Len(searchParams[c].locations)
    + IndexOf(searchParams[c].locations, request.location)

PairCount(c) == Len(searchParams[c].keywords) * Len(searchParams[c].locations)

\* C1: when the sink rejects for one posting, crawl() does not propagate
\* the failure: the promise of crawl() never rejects.
C1_SinkFailureNotPropagated ==
  \A c \in Crawls : pc[c] # "thrown"

C3_TotalCountsEveryExtractedPosting ==
  \A c \in Crawls :
    pc[c] \in {"done", "thrown"} => totalJobsFound[c] = extracted[c]

\* C10: every fetch but the first of an invocation begins after exactly one
\* sleep of the configured delay since the fetch before it began.
C10_OneDelayBetweenFetches ==
  \A c \in Crawls :
    \A i \in 1..Len(fetchLog[c]) :
      fetchLog[c][i].waited = IF i = 1 THEN 0 ELSE RateLimit

\* C10 happens: a fetch after a page that was not the last of its pair, a
\* fetch after a failed page, and a fetch after the last page of a pair.
C10_Witness ==
  LET log == fetchLog["startup"]
      mp == searchParams["startup"].maxPages
  IN  /\ pc["startup"] = "done"
      /\ \E i \in 1..(Len(log) - 1) :
           /\ log[i].outcome = "ok"
           /\ log[i + 1].request.start = log[i].request.start + PageSize
      /\ \E i \in 1..(Len(log) - 1) :
           /\ log[i].outcome = "failed"
           /\ log[i + 1].request.start = 0
      /\ \E i \in 1..(Len(log) - 1) :
           /\ log[i].outcome = "ok"
           /\ log[i].request.start = (mp - 1) * PageSize
           /\ log[i + 1].request.start = 0

\* C11: crawl() returns without sleeping after its final request: when it
\* has returned, no time was slept since the last fetch began.
C11_NoDelayAfterFinalRequest ==
  \A c \in Crawls : pc[c] = "done" => slept[c] = 0

\* the fetches crawl() may issue: one per keyword, location and page index
MaxFetches(c) ==
  Len(searchParams[c].keywords) * Len(searchParams[c].locations)
    * searchParams[c].maxPages

C27_RequestOrderAndOffset ==
  \A c \in Crawls :
    LET log == fetchLog[c] IN
    /\ Len(log) > 0 =>
         /\ PairNo(c, log[1].request) = 1
         /\ log[1].request.start = 0
    /\ \A i \in 1..(Len(log) - 1) :
         \/ /\ PairNo(c, log[i + 1].request) = PairNo(c, log[i].request)
            /\ log[i + 1].request.start = log[i].request.start + 10
         \/ /\ PairNo(c, log[i + 1].request) = PairNo(c, log[i].request) + 1
            /\ log[i + 1].request.start = 0
    /\ \A i \in 1..Len(log) :
         \E n \in 0..(searchParams[c].maxPages - 1) : log[i].request.start = n * 10
    /\ pc[c] = "fetching" =>
         /\ log[Len(log)].request.keyword = searchParams[c].keywords[kIdx[c]]
         /\ log[Len(log)].request.location = searchParams[c].locations[lIdx[c]]
         /\ log[Len(log)].request.start = page[c] * 10

\* C27 happens: a crawl over two keywords, two locations and two pages has
\* returned after it fetched every page of every pair.
C27_Witness ==
  /\ pc["startup"] = "done"
  /\ Len(searchParams["startup"].keywords) = 2
  /\ Len(searchParams["startup"].locations) = 2
  /\ searchParams["startup"].maxPages = 2
  /\ Len(fetchLog["startup"]) = 8

\* C12: every posting extracted from a fetched page is passed to the sink
\* exactly once before the crawl leaves the page: whenever the crawl is not
\* working through the postings of a page (it is about to fetch, fetching,
\* sleeping, or has ended) the sink has been called once for each posting
\* extracted so far, and the sink is never called more often than that.
C12_EveryPostingPassedOnce ==
  \A c \in Crawls :
    /\ sinkCalls[c] <= extracted[c]
    /\ pc[c] \notin {"jobs", "saving"} => sinkCalls[c] = extracted[c]

\* the fetches of an invocation that have not returned yet
PendingFetches(c) ==
  Cardinality({ i \in 1..Len(fetchLog[c]) : fetchLog[c][i].outcome = "pending" })

\* the sink calls of an invocation that have neither resolved (each
\* resolved call was counted) nor rejected (which ended the invocation)
PendingSinks(c) ==
  sinkCalls[c] - totalJobsFound[c] - (IF pc[c] = "thrown" THEN 1 ELSE 0)

\* C13: in one invocation at most one fetch and at most one sink call are
\* in flight, and never a fetch together with a sink call.
C13_OneCallInFlight ==
  \A c \in Crawls :
    /\ PendingFetches(c) \in {0, 1}
    /\ PendingSinks(c) \in {0, 1}
    /\ PendingFetches(c) + PendingSinks(c) <= 1

\* C13 happens: the second posting of the second page is at the sink; the
\* fetches and the sink calls before it have all returned.
C13_Witness ==
  /\ Len(fetchLog["startup"]) = 2
  /\ PendingFetches("startup") = 0
  /\ PendingSinks("startup") = 1
  /\ sinkCalls["startup"] = 4
  /\ Len(jobs["startup"]) = 1

----------------------------------------------------------------------------
(* Properties of the repository                                            *)

RowsOf(rs, url) == { r \in rs : r.job_url = url }

\* a step in which the database accepted an upsert: the statement took a
\* value of the id sequence
UpsertAccepted == serial' # serial

\* C4: an accepted upsert of a url that is already stored leaves exactly
\* one row for that url and adds none; the row keeps its id, which is the
\* id returned, its last_verified is the time of the call and it is active.
C4_SecondUpsertRefreshesRow ==
  [][ \A r \in rows :
        (UpsertAccepted /\ result'.job_url = r.job_url) =>
          /\ Cardinality(rows') = Cardinality(rows)
          /\ Cardinality(RowsOf(rows', r.job_url)) = 1
          /\ \A q \in RowsOf(rows', r.job_url) :
               /\ q.id = r.id
               /\ result'.id = r.id
               /\ q.last_verified = now
               /\ q.is_active ]_vars

\* C4 happens: the last call was an upsert of a url stored on an earlier
\* day, and it found the row inactive or not.
C4_Witness ==
  /\ result.op = "upsertJob" /\ result.success
  /\ \E r \in rows :
       /\ r.job_url = result.job_url
       /\ r.id = result.id
       /\ r.created_at + StaleDays < r.last_verified
       /\ r.last_verified = result.at
       /\ r.is_active
       /\ serial > r.id + 1

\* C5: the table never holds two rows with the same job_url.
C5_OneRowPerUrl ==
  \A r1, r2 \in rows : r1.job_url = r2.job_url => r1 = r2

\* C5 happens: both crawls are under way, each has saved postings, and the
\* database accepted more upserts than it holds rows: a posting that an
\* earlier run stored was upserted again, next to a new one.
C5_Witness ==
  /\ \A c \in Crawls : pc[c] \in {"jobs", "saving", "pageSleep"} /\ totalJobsFound[c] >= 1
  /\ result.op = "upsertJob" /\ result.success
  /\ serial - 1 > Cardinality(rows)
  /\ Cardinality(rows) = 2
  /\ \E r \in rows : r.created_at + StaleDays < r.last_verified /\ r.id = result.id

\* a step in which markInactive returned
MarkInactiveReturned ==
  /\ result'.op = "markInactive"
  /\ result' # result \/ rows' # rows

\* C6: markInactive makes inactive exactly the active rows whose
\* last_verified is more than 7 days old and returns their number; rows
\* that are inactive already, and rows verified within the last 7 days, stay
\* as they are and are not counted. When the database rejects the
\* statement no row changes and 0 is returned.
C6_MarkInactiveFlipsExactlyStaleActive ==
  [][ MarkInactiveReturned =>
        LET old == { r \in rows : r.is_active /\ now - r.last_verified > StaleDays }
        IN  /\ result'.success =>
                /\ rows' = (rows \ old) \cup { [r EXCEPT !.is_active = FALSE] : r \in old }
                /\ result'.count = Cardinality(old)
            /\ ~result'.success => rows' = rows /\ result'.count = 0
            /\ \A r \in rows :
                 (~r.is_active \/ now - r.last_verified <= StaleDays) => r \in rows'
            /\ Cardinality(rows') = Cardinality(rows) ]_vars

\* C6 happens: the last markInactive transitioned one row and left alone a
\* row that was inactive already and is as old.
C6_Witness ==
  /\ result.op = "markInactive" /\ result.success
  /\ result.count = 1
  /\ Cardinality(rows) = 2
  /\ \A r \in rows : ~r.is_active /\ result.at - r.last_verified > StaleDays

\* C14: an accepted upsert of a url that is already stored leaves the
\* title, company and location of the row as they were, whatever values
\* the new sighting carries for them.
C14_UpsertKeepsTitleCompanyLocation ==
  [][ \A jd \in JobDatas :
        (UpsertJob(jd) /\ UpsertAccepted) =>
          \A r \in RowsOf(rows, jd.job_url) :
            /\ RowsOf(rows', jd.job_url) # {}
            /\ \A q \in RowsOf(rows', jd.job_url) :
                 /\ q.title = r.title
                 /\ q.company = r.company
                 /\ q.location = r.location ]_vars

\* C14 happens: the row of "Senior Node.js Developer" at Acme, Remote was
\* upserted again on a later day from the sighting "NodeJS Engineer" at
\* Acme Corp, Austin, TX of the same url.
C14_Witness ==
  /\ result.op = "upsertJob" /\ result.success
  /\ \E r \in rows :
       /\ r.id = result.id
       /\ r.title = TitleSeniorNode /\ r.company = "Acme" /\ r.location = LocRemote
       /\ r.keywords = extractKeywords(TitleNodeJS)
       /\ r.created_at < r.last_verified
       /\ r.last_verified = result.at

\* C15: after an accepted upsert of a url that is already stored the
\* keyword set of the row is the keyword set of the new sighting: no
\* keyword that only the stored row had is left.
C15_UpsertReplacesKeywords ==
  [][ \A jd \in JobDatas :
        (UpsertJob(jd) /\ UpsertAccepted) =>
          \A r \in RowsOf(rows, jd.job_url) :
            /\ RowsOf(rows', jd.job_url) # {}
            /\ \A q \in RowsOf(rows', jd.job_url) :
                 /\ q.keywords = jd.keywords
                 /\ \A k \in r.keywords \ jd.keywords : k \notin q.keywords ]_vars

\* C15 happens: the row first stored from "NodeJS Engineer" was upserted
\* again from "Senior Node.js Developer"; it now holds the keywords of the
\* second title and has lost the keyword only the first title gave.
C15_Witness ==
  /\ result.op = "upsertJob" /\ result.success
  /\ \E r \in rows :
       /\ r.id = result.id
       /\ r.title = TitleNodeJS
       /\ r.keywords = extractKeywords(TitleSeniorNode)
       /\ extractKeywords(r.title) \ r.keywords # {}
       /\ r.last_verified = result.at

\* C17: a row that markInactive made inactive becomes active again on the
\* next accepted upsert of its url, as the same row (same id, no row
\* added) with last_verified = NOW(); and a markInactive that runs while
\* that sighting is at most 7 days old leaves the row as it is, active.
C17_ResightedRowIsActiveAgain ==
  [][ /\ \A r \in rows :
           (r.id \in swept /\ ~r.is_active /\ UpsertAccepted
              /\ result'.job_url = r.job_url) =>
             /\ Cardinality(rows') = Cardinality(rows)
             /\ result'.id = r.id
             /\ \E q \in rows' :
                  /\ q.id = r.id /\ q.job_url = r.job_url
                  /\ q.is_active
                  /\ q.last_verified = now
      /\ \A r \in rows :
           (r.id \in swept /\ r.is_active /\ MarkInactiveReturned
              /\ now - r.last_verified <= StaleDays) =>
             r \in rows' ]_vars

\* C17 happens: a row that markInactive had made inactive was sighted
\* again, and a markInactive that ran a day after that sighting has left
\* it active.
C17_Witness ==
  /\ result.op = "markInactive" /\ result.success /\ result.at = now
  /\ \E r \in rows :
       /\ r.id \in swept
       /\ r.is_active
       /\ r.created_at + StaleDays < r.last_verified
       /\ r.last_verified < now

Urls(rs) == { r.job_url : r \in rs }

\* C16: no call of the repository deletes a row: over every step of
\* upsertJob, markInactive, searchJobs and getStats each stored row is
\* still stored afterwards, under its id and url, so the set of stored
\* urls only grows; and the rows that markInactive finds stale are kept,
\* as inactive rows.
C16_NoRowIsDeleted ==
  [][ /\ Urls(rows) \subseteq Urls(rows')
      /\ Cardinality(rows') >= Cardinality(rows)
      /\ \A r \in rows : \E q \in rows' : q.id = r.id /\ q.job_url = r.job_url
      /\ (MarkInactiveReturned /\ result'.success) =>
           \A r \in rows :
             (r.is_active /\ now - r.last_verified > StaleDays) =>
               [r EXCEPT !.is_active = FALSE] \in rows' ]_vars

\* C16 happens: markInactive found a row stale, a new url was stored next
\* to it, and getStats then counted every row, the inactive one among them.
C16_Witness ==
  /\ found.op = "getStats" /\ found.ok
  /\ found.stats.total_jobs = Cardinality(rows)
  /\ found.stats.total_jobs = 2
  /\ found.stats.active_jobs = 1
  /\ swept # {}
  /\ \E r \in rows : ~r.is_active /\ r.id \in swept
  /\ \E r \in rows : r.created_at = now

Range(seq) == { seq[i] : i \in 1..Len(seq) }

\* a step in which searchJobs returned
SearchReturned == found'.op = "searchJobs" /\ found' # found

\* C20: searchJobs returns only rows that are active, share a keyword with
\* the query and whose location matches the pattern, no row twice, ordered
\* by last_verified descending, at most limit of them; when the query
\* succeeds these are min(limit, number of matching rows) rows and no
\* matching row left out is newer than a row returned; when the database
\* rejects the query the result is empty.
C20_SearchReturnsNewestMatching ==
  [][ SearchReturned =>
        LET res == found'.rows
            matching == { r \in rows :
                            /\ r.is_active
                            /\ \E k \in found'.keywords : k \in r.keywords
                            /\ ILike(r.location, found'.location) }
        IN  /\ \A i \in 1..Len(res) : res[i] \in matching
            /\ \A i, j \in 1..Len(res) : i < j =>
                 /\ res[i] # res[j]
                 /\ res[i].last_verified >= res[j].last_verified
            /\ Len(res) <= found'.limit
            /\ found'.ok => Len(res) = Min(found'.limit, Cardinality(matching))
            /\ \A r \in matching \ Range(res) :
                 \A i \in 1..Len(res) : res[i].last_verified >= r.last_verified
            /\ ~found'.ok => res = << >> ]_vars

\* C20 happens: a search with limit 2 found three matching rows and
\* returned the two newest, newest first, leaving out the oldest.
C20_Witness ==
  /\ found.op = "searchJobs" /\ found.ok
  /\ found.limit = 2 /\ Len(found.rows) = 2
  /\ found.rows[1].last_verified > found.rows[2].last_verified
  /\ Range(found.rows) \subseteq rows
  /\ \E r \in rows \ Range(found.rows) :
       /\ SearchWhere(r, found.keywords, found.location)
       /\ r.last_verified < found.rows[2].last_verified

\* C19: when the sink of a crawl has stored a posting, the row of its url
\* carries the seniority that crawl() put on the posting.
C19_RowCarriesSeniority ==
  [][ \A c \in Crawls :
        (pc[c] = "saving" /\ pc'[c] = "jobs" /\ UpsertAccepted) =>
          \A q \in RowsOf(rows', jobData[c].job_url) :
            /\ "seniority_level" \in DOMAIN q
            /\ q.seniority_level = jobData[c].seniority_level ]_vars

\* C29: in every state of the repository an inactive row was last
\* verified more than 7 days ago: no row sighted within the last 7 days is
\* inactive, however upserts, sweeps and days interleave.
C29_InactiveRowIsOlderThanWindow ==
  \A r \in rows : ~r.is_active => now - r.last_verified > 7

\* C29 happens: a sweep has made two rows inactive, one of them was
\* sighted again since and is active, the other is still inactive.
C29_Witness ==
  /\ \E r \in rows : ~r.is_active /\ r.id \in swept
  /\ \E r \in rows : r.is_active /\ r.id \in swept /\ now - r.last_verified <= 7

\* C30: a stored row keeps its id, its source and its created_at under
\* every later upsert and sweep; two rows never have the same id; and
\* created_at <= last_verified for every row in every state.
C30_RowIdentityIsStable ==
  /\ [](/\ \A r, q \in rows : r.id = q.id => r = q
        /\ \A r \in rows : r.created_at <= r.last_verified)
  /\ [][\A r \in rows :
          \E q \in rows' : /\ q.job_url = r.job_url
                            /\ q.id = r.id
                            /\ q.source = r.source
                            /\ q.created_at = r.created_at]_vars

\* C30 happens: a row stored on an earlier day was made inactive by a
\* sweep and has just been upserted again, and a second row was inserted
\* on a later day than the first.
C30_Witness ==
  /\ \E r \in rows : /\ r.source # "career_page"
                      /\ r.id \in swept
                      /\ r.created_at < r.last_verified
                      /\ result = Result("upsertJob", TRUE, r.id, r.job_url, 0, now)
                      /\ r.last_verified = now
  /\ \E q \in rows : q.id > 1 /\ q.created_at > 0

----------------------------------------------------------------------------
(* Properties of the host                                                  *)

\* the variables of one invocation of crawl()
LocalsOf(c) ==
  <<pc[c], searchParams[c], kIdx[c], lIdx[c], page[c], jobs[c], jobData[c],
    totalJobsFound[c], fetchLog[c], extracted[c], sinkCalls[c], slept[c]>>

\* C26: two invocations of crawl() that overlap share no mutable state: a
\* step changes the variables of one invocation at most; the counter of
\* an invocation is the number of its own sink calls that resolved, and
\* the count it returns is the number of postings of its own pages; every
\* fetch after its first comes after a delay of its own; and its next
\* fetch and the end of its sleep never wait for the other invocation.
C26_InvocationsShareNothing ==
  /\ [](\A c \in Crawls :
          /\ totalJobsFound[c]
               = sinkCalls[c] - (IF pc[c] = "saving" THEN 1 ELSE 0)
          /\ pc[c] = "done" => totalJobsFound[c] = extracted[c]
          /\ \A i \in 2..Len(fetchLog[c]) : fetchLog[c][i].waited >= RateLimit
          /\ pc[c] = "page" => ENABLED StartFetch(c)
          /\ pc[c] = "pageSleep" => ENABLED PageWake(c)
          /\ pc[c] = "pairSleep" => ENABLED PairWake(c))
  /\ [][\E c \in Crawls : \A d \in Crawls \ {c} : LocalsOf(d)' = LocalsOf(d)]_vars

\* C26 happens: both invocations are under way, the startup crawl at the
\* sink with its third posting, the scheduled crawl asleep after a first
\* page of one posting.
C26_Witness ==
  /\ pc["startup"] = "saving"
  /\ totalJobsFound["startup"] = 2
  /\ pc["scheduled"] = "pageSleep"
  /\ totalJobsFound["scheduled"] = 1
  /\ extracted["scheduled"] = 1

\* C28: a call of saveJobToDatabase always resolves, so that the crawl goes
\* on with the next posting and counts this one; upsertJob has returned a
\* value: {success: false} with every stored row as it was, or {success:
\* true, id} with the id of the row of the posting.
C28_FailureIsAValue ==
  [][\A c \in Crawls :
       (pc[c] = "saving" /\ pc'[c] # "saving") =>
         /\ pc'[c] = "jobs"
         /\ totalJobsFound'[c] = totalJobsFound[c] + 1
         /\ result'.op = "upsertJob"
         /\ result'.job_url = jobData[c].job_url
         /\ ~result'.success => rows' = rows
         /\ result'.success =>
              \E r \in rows' : r.job_url = jobData[c].job_url /\ r.id = result'.id]_vars

\* C28 happens: the startup crawl has returned a count although the
\* database rejected every upsert, the last one included: the table is
\* still empty.
C28_Witness ==
  /\ pc["startup"] = "done"
  /\ totalJobsFound["startup"] > 1
  /\ pc["scheduled"] = "idle"
  /\ result.op = "upsertJob"
  /\ ~result.success
  /\ rows = {}

----------------------------------------------------------------------------
(* Properties of the extractor                                             *)

\* C18: the url of every posting emitted, which is the job_url handed to
\* the sink, is absolute on the site origin and has no query string; the
\* rooted href /viewjob/1?jk=abc123&tk=xyz gives origin + /viewjob/1.
C18_UrlIsOriginAndPathOnly ==
  cpc = "parsed" =>
    /\ \A i \in 1..Len(parsed) :
         /\ parsed[i].job_url.origin = baseUrl
         /\ parsed[i].job_url.search = ""
    /\ doc = <<CardNode>> =>
         parsed[1].job_url = [origin |-> baseUrl, pathname |-> "/viewjob/1", search |-> ""]

\* the elements of a page that some selector matches, in document order,
\* each as the listing it encloses
RECURSIVE Candidates(_)
Candidates(html) ==
  IF Len(html) = 0 THEN << >>
  ELSE [i \in 1..Cardinality({ w \in 1..Len(Head(html).wrappers) :
                                  IsJobCard(Head(html).wrappers[w]) }) |-> Head(html)]
         \o Candidates(Tail(html))

\* a candidate with the fields a posting needs
WellFormed(card) ==
  Len(card.title) > 0 /\ card.company # "" /\ card.href.kind # "none"

\* C22: extraction never raises and never aborts a page. The fetch of a
\* page ends in its postings, never in a rejection of crawl(); the
\* postings are those of the well-formed candidates of the page, in
\* document order, the others being skipped; a page without a candidate
\* gives no posting; and after a page without postings crawl() goes on to
\* the sleep before the next page, or to the end of the pair after the
\* last page.
C22_ExtractionNeverAborts ==
  [][\A c \in Crawls :
       /\ (pc[c] = "fetching" /\ pc'[c] # "fetching") =>
            /\ pc'[c] \in {"jobs", "pairSleep"}
            /\ pc'[c] = "jobs" =>
                 LET good == SelectSeq(Candidates(doc'), WellFormed) IN
                 /\ Len(jobs'[c]) = Len(good)
                 /\ \A i \in 1..Len(good) :
                      /\ jobs'[c][i].title = good[i].title
                      /\ jobs'[c][i].company = good[i].company
                      /\ jobs'[c][i].job_url = CleanUrl(good[i].href)
                 /\ Len(Candidates(doc')) = 0 => Len(jobs'[c]) = 0
       /\ (pc[c] = "jobs" /\ Len(jobs[c]) = 0 /\ pc'[c] # pc[c]) =>
            pc'[c] = IF page[c] < searchParams[c].maxPages - 1
                       THEN "pageSleep" ELSE "pairSleep"
       /\ (pc[c] = "pageSleep" /\ pc'[c] # pc[c]) =>
            pc'[c] = "page" /\ page'[c] = page[c] + 1]_vars

\* C22 happens: the first page of the crawl gave no posting; the crawl
\* went on to the second page, where the first candidate has no company
\* and is skipped and the second is emitted.
C22_Witness ==
  /\ pc["startup"] = "jobs"
  /\ Len(fetchLog["startup"]) = 2
  /\ fetchLog["startup"][1].outcome = "ok"
  /\ extracted["startup"] = 1
  /\ doc = <<CardNoCompany, CardNode>>
  /\ Len(jobs["startup"]) = 1
  /\ jobs["startup"][1].title = CardNode.title

\* the elements of a page that a selector matches
Matches(html, class) ==
  { i \in 1..Len(html) : \E w \in 1..Len(html[i].wrappers) : html[i].wrappers[w] = class }

\* the postings of the elements that one selector matches, in document order
RECURSIVE PostingsOfPattern(_, _)
PostingsOfPattern(html, class) ==
  IF Len(html) = 0 THEN << >>
  ELSE (IF 1 \in Matches(html, class) THEN ParseElement(Head(html)) ELSE << >>)
         \o PostingsOfPattern(Tail(html), class)

\* the postings of the first selector, in the order of the selector list,
\* that matches an element of the page
PostingsOfFirstPattern(html) ==
  LET hits == { p \in 1..Len(JobCardSelectors) : Matches(html, JobCardSelectors[p]) # {} }
  IN  IF hits = {} THEN << >>
      ELSE PostingsOfPattern(html,
             JobCardSelectors[CHOOSE p \in hits : \A q \in hits : p <= q])

\* C23: the postings of a page are those of the elements of the first
\* selector that matches any element, not of the union of the selectors:
\* an element that only a later selector matches yields nothing, and no
\* listing is emitted more than once.
C23_FirstPatternWins ==
  cpc = "parsed" =>
    /\ parsed = [i \in 1..Len(PostingsOfFirstPattern(doc)) |->
                   MakeJobData(PostingsOfFirstPattern(doc)[i])]
    /\ Len(parsed) <= Len(doc)

\* a heading whose text holds one of the job-like nouns, in any case
JobLikeHeading(el) ==
  /\ el.tag \in {"h1", "h2", "h3", "h4", "h5", "h6"}
  /\ \E noun \in JobNouns : Includes(toLowerCase(el.text), noun)

\* the boxes of a career page that enclose such a heading
HeadingContainers(html) ==
  { b \in 1..Len(html) :
      \E j \in 1..Len(html[b].children) : JobLikeHeading(html[b].children[j]) }

\* C24: when no selector of the list matches an element of the page, the
\* extractor emits one posting for each container that encloses a heading
\* with a job-like noun; a page that holds only the heading "Senior Data
\* Engineer" inside a linked container gives exactly one posting, with
\* that title.
C24_HeadingFallback ==
  (cpc = "listed"
     /\ \A p \in 1..Len(selectors) : Len(Select(doc.html, selectors[p])) = 0) =>
    /\ Len(parsed) = Cardinality(HeadingContainers(doc.html))
    /\ doc.html \in {<<BoxLinked>>, <<BoxAnchor>>} =>
         Len(parsed) = 1 /\ parsed[1].title = TitleDataEngineer

----------------------------------------------------------------------------
(* Properties of the classifier                                            *)

Mentions(terms, t) == TestTerms(terms, toLowerCase(t))

\* the staff-level terms of the documented level "staff"
StaffTerms == { <<"s","t","a","f","f">>, <<"p","r","i","n","c","i","p","a","l">>, <<"a","r","c","h","i","t","e","c","t">> }

\* C7: detectSeniority applies the precedence management > staff > senior
\* > entry > mid: a title with a management term is management whatever
\* else it holds, and a title with no term of any category is mid.
C7_ManagementTakesPrecedence ==
  cpc = "classified" =>
    /\ Mentions(ManagementTerms, text) => level = "management"
    /\ ~Mentions(ManagementTerms \cup StaffTerms \cup SeniorTerms \cup EntryTerms, text)
         => level = "mid"

\* C8: the result is one of the five levels, and a title whose
\* highest-precedence term is a staff-level term is staff; a title with
\* only an entry term is entry and a title with no term is mid.
C8_StaffIsItsOwnLevel ==
  cpc = "classified" =>
    /\ level \in {"entry", "mid", "senior", "staff", "management"}
    /\ (Mentions(StaffTerms, text) /\ ~Mentions(ManagementTerms, text))
         => level = "staff"
    /\ text = <<"J","u","n","i","o","r"," ","D","e","v","e","l","o","p","e","r">> => level = "entry"
    /\ text = <<"S","o","f","t","w","a","r","e"," ","E","n","g","i","n","e","e","r">> => level = "mid"

\* an occurrence of a term as a whole word: no letter, digit or underscore
\* stands next to it on either side
OccursAsWord(term, t) ==
  \E p \in 1..Len(t) :
    /\ LiteralAt(toLowerCase(t), term, p)
    /\ ~IsWordChar(t, p - 1)
    /\ ~IsWordChar(t, p + Len(term))

\* C25: extractKeywords returns the canonical token of a dictionary term
\* exactly when the term (or another term of the same token) occurs in
\* the text as a whole word, whatever the case of the text, and returns
\* nothing else; the title "JavaScript" gets no token for 'java'.
C25_TokenIffWholeWord ==
  cpc = "classified" =>
    /\ \A i \in 1..Len(KEYWORDS) :
         Normalize(KEYWORDS[i]) \in matched
           <=> \E j \in 1..Len(KEYWORDS) :
                 /\ Normalize(KEYWORDS[j]) = Normalize(KEYWORDS[i])
                 /\ OccursAsWord(KEYWORDS[j], text)
    /\ matched \subseteq { Normalize(KEYWORDS[i]) : i \in 1..Len(KEYWORDS) }
    /\ text = <<"J","a","v","a","S","c","r","i","p","t">> => <<"j","a","v","a">> \notin matched

\* the spellings of one technology in the dictionary
NodeVariants == { <<"n","o","d","e">>, <<"n","o","d","e","j","s">>, <<"n","o","d","e",".","j","s">> }
PostgresVariants == { <<"p","o","s","t","g","r","e","s">>, <<"p","o","s","t","g","r","e","s","q","l">> }

TokensOf(variants) == { Normalize(v) : v \in variants }

\* C9: a title that holds any spelling of a technology gets exactly one
\* token for it, and that token is the one every other spelling gets: the
\* token of "Node.js Developer" for the runtime, the token of "PostgreSQL"
\* for the database.
C9_VariantsShareOneToken ==
  cpc = "classified" =>
    /\ Mentions(NodeVariants, text) =>
         /\ Cardinality(matched \cap TokensOf(NodeVariants)) = 1
         /\ matched \cap TokensOf(NodeVariants)
              = extractKeywords(<<"N","o","d","e",".","j","s"," ","D","e","v","e","l","o","p","e","r">>) \cap TokensOf(NodeVariants)
    /\ Mentions(PostgresVariants, text) =>
         /\ Cardinality(matched \cap TokensOf(PostgresVariants)) = 1
         /\ matched \cap TokensOf(PostgresVariants)
              = extractKeywords(<<"p","o","s","t","g","r","e","s","q","l">>) \cap TokensOf(PostgresVariants)

====
